---- MODULE Spec2Model ----
(***************************************************************************)
(* Model of _repo_generator.py: the Generator class that zips add-on       *)
(* folders, merges their declarations into zips/addons.xml, writes the     *)
(* md5 of that file, removes superseded zips and copies the repository     *)
(* zip to the top-level directory.  _remove_binaries (compiled Python      *)
(* files) and the nested "repo" layout of _get_addon_folders touch none of *)
(* the files modelled.  The index page step that ends __init__ returns at  *)
(* once when the top-level directory has no index.html, which is the case  *)
(* in Spec; SpecIndex is _update_index_html on a page that may exist.      *)
(*                                                                         *)
(* The file system is the state.  One action stands for one method called  *)
(* by Generator.__init__; the branches a method takes on an I/O error it   *)
(* catches (try/except) are chosen nondeterministically; a behaviour has   *)
(* at most one failing I/O operation (manifest write, md5 read or save,    *)
(* os.remove).                                                             *)
(***************************************************************************)
EXTENDS Integers, Sequences, FiniteSets, TLC

\* ------------------------------------------------------------------ bounds
\* Number of Generator(release) runs explored.
MaxRuns == 2
\* Longest directory listing given to the os.walk loop of _create_zip.
MaxFiles == 3
\* Longest index.html, counted in segments (anchors and stretches of text).
MaxSegs == 2

\* ------------------------------------------------------------- value space
\* Python's None (a missing XML attribute, a falsy return value).
None == "None"
\* Python's True as a return value.
True == "True"
\* No file of that name, or an attribute never set: compared with zip names
\* and digests, which are tuples.
Absent == <<>>
\* Add-on folders of the release directory; a folder is named after its id.
Ids == {"a", "b"}
Versions == {"1", "2"}
\* Code points of the ids, for Python's str comparison in sorted().
Code == [a |-> <<97>>, b |-> <<98>>]
\* A zip already lying in the top-level directory before the first run.
StaleZip == <<"old", "0">>

\* addon.xml of one folder: ok = FALSE when ElementTree.parse raises; id or
\* version None when the root element lacks the attribute; repo = TRUE when
\* it has an extension with point="xbmc.addon.repository".  Folder a is the
\* one that can lack its id, folder b the one that can lack its version.
Decls(f) ==
    [ok : {FALSE}, id : {None}, version : {None}, repo : BOOLEAN]
    \cup [ok : {TRUE}, id : IF f = "a" THEN {None} ELSE {}, version : {"1"}, repo : BOOLEAN]
    \cup [ok : {TRUE}, id : {f},
          version : Versions \cup (IF f = "b" THEN {None} ELSE {}), repo : BOOLEAN]

VARIABLES
    sources,        \* folder -> declaration (addon.xml of release/<folder>)
    manifest,       \* zips/addons.xml: sequence of [id, version]; <<>> if absent
    md5_file,       \* zips/addons.xml.md5: Absent or the digest it holds
    zips,           \* id -> set of [version, mtime]: *.zip in zips/<id>/
    meta,           \* id -> "none" | "repo" | "plain": zips/<id>/addon.xml
    root_zips,      \* names of the *.zip files in the top-level directory
    home_id,        \* basename of the top-level directory
    pc,             \* position inside Generator.__init__
    runs,           \* number of runs started
    changed,        \* return value of _generate_addons_file
    md5_result,     \* return value of _generate_md5_file
    latest_repo_zip_name,   \* self._latest_repo_zip_name, Absent if unset
    faulted,        \* TRUE once an I/O operation has failed
    hist,           \* what the current run did (observation only)
    walk,           \* the os.walk loop of _create_zip on one folder (SpecZip)
    index_html,     \* index.html of the top-level directory: [exists, content]
    index_hist      \* what _update_index_html read and did (observation only)

vars == <<sources, manifest, md5_file, zips, meta, root_zips, home_id,
          pc, runs, changed, md5_result, latest_repo_zip_name, faulted, hist, walk,
          index_html, index_hist>>

\* The index page and the record of its update.
ixvars == <<index_html, index_hist>>

fsvars == <<sources, manifest, md5_file, zips, meta, root_zips, home_id>>

\* ---------------------------------------------------------------- helpers
RECURSIVE LexLess(_, _)
\* Python: s < t for two strings given as code-point sequences.
LexLess(s, t) ==
    IF t = <<>> THEN FALSE
    ELSE IF s = <<>> THEN TRUE
    ELSE IF s[1] # t[1] THEN s[1] < t[1]
    ELSE LexLess(Tail(s), Tail(t))

\* addon.get('id') < other.get('id') for two ids that are strings.
IdLess(x, y) == LexLess(Code[x], Code[y])

\* "{0}-{1}.zip".format(addon_id, version); None formats as "None".
ZipName(addon_id, version) == <<addon_id, version>>

\* hashlib.md5(text).hexdigest(): a digest determined by the text.
Md5(text) == <<"md5", text>>

Perms(S) == {p \in [1..Cardinality(S) -> S] : \A x \in S : \E i \in DOMAIN p : p[i] = x}

RemoveAt(s, k) == [i \in 1..(Len(s) - 1) |-> IF i < k THEN s[i] ELSE s[i + 1]]
InsertAt(s, k, e) ==
    [i \in 1..(Len(s) + 1) |-> IF i < k THEN s[i] ELSE IF i = k THEN e ELSE s[i - 1]]


\* ------------------------------------------- the os.walk loop of _create_zip
\* File and directory names are sequences of characters.
IGNORE ==
    <<<<".", "g", "i", "t">>,
      <<".", "g", "i", "t", "h", "u", "b">>,
      <<".", "g", "i", "t", "i", "g", "n", "o", "r", "e">>,
      <<".", "D", "S", "_", "S", "t", "o", "r", "e">>,
      <<"t", "h", "u", "m", "b", "s", ".", "d", "b">>,
      <<".", "i", "d", "e", "a">>,
      <<"v", "e", "n", "v">>>>

\* The names a directory of an add-on may hold.
FileNames ==
    {<<".", "g", "i", "t", "k", "e", "e", "p">>,
     <<".", "g", "i", "t", "m", "o", "d", "u", "l", "e", "s">>,
     <<".", "g", "i", "t", "i", "g", "n", "o", "r", "e">>,
     <<"t", "h", "u", "m", "b", "s", ".", "d", "b">>,
     <<"a", "d", "d", "o", "n", ".", "x", "m", "l">>,
     <<"i", "c", "o", "n", ".", "p", "n", "g">>}
DirNames ==
    {<<".", "g", "i", "t">>, <<".", "g", "i", "t", "l", "a", "b">>, <<"l", "i", "b">>}

\* f.startswith(i)
StartsWith(f, i) == Len(i) <= Len(f) /\ SubSeq(f, 1, Len(i)) = i

RECURSIVE ScanFiles(_, _, _)
\* Lines 259-264: "for f in files: if f.startswith(i): files.remove(f)".
\* The for loop reads files[k] for k = 1, 2, ... against the list as it is at
\* that moment, so a removal moves the next name into the slot just read.
ScanFiles(files, i, k) ==
    IF k > Len(files) THEN files
    ELSE IF StartsWith(files[k], i) THEN ScanFiles(RemoveAt(files, k), i, k + 1)
    ELSE ScanFiles(files, i, k + 1)

RECURSIVE PruneFiles(_, _)
\* Lines 253-264 for the files of one directory: IGNORE[n], IGNORE[n+1], ...
PruneFiles(files, n) ==
    IF n > Len(IGNORE) THEN files
    ELSE PruneFiles(ScanFiles(files, IGNORE[n], 1), n + 1)

\* Lines 254-258: "if i in dirs: dirs.remove(i)" for every i of IGNORE.
PruneDirs(dirs) == dirs \ {IGNORE[n] : n \in 1..Len(IGNORE)}

\* Lines 266-271: one archive entry per remaining file, named by its path
\* relative to the add-on folder.
Entries(path, files) == {<<path, files[k]>> : k \in 1..Len(files)}

Range(s) == {s[k] : k \in 1..Len(s)}
\* Directory listings: sequences of distinct names, at most MaxFiles long.
Listings(names) ==
    {l \in UNION {[1..n -> names] : n \in 0..MaxFiles} : Cardinality(Range(l)) = Len(l)}

\* ------------------------------------------------- Generator._create_zip
\* final_zip exists: os.path.exists(final_zip) in zips/<addon_id>/.
ZipExists(dir, version) == \E z \in dir : z.version = version

\* The mtime of a file created now in a directory: later than that of every
\* file already there (mtimes are only compared within one directory).
Now(dir) ==
    1 + (IF dir = {} THEN 0 ELSE CHOOSE t \in {z.mtime : z \in dir} : \A z \in dir : z.mtime <= t)

\* _create_zip(addon_folder, addon_id, version) on the accumulator acc of
\* the merge loop.  addon_id = None makes os.path.join raise TypeError.
CreateZip(acc, addon_id, version) ==
    IF addon_id = None
    THEN [acc EXCEPT !.raised = TRUE]
    ELSE IF ZipExists(acc.zips[addon_id], version)
    THEN acc
    ELSE [acc EXCEPT
            !.zips[addon_id] = @ \cup {[version |-> version, mtime |-> Now(@)]},
            !.built = @ \cup {ZipName(addon_id, version)},
            !.last_built[addon_id] = ZipName(addon_id, version)]

\* _copy_meta_files(src_addon_folder, addon_id): shutil.copy of addon.xml,
\* overwriting the copy in zips/<addon_id>/.
CopyMetaFiles(acc, addon_id, decl) ==
    [acc EXCEPT !.meta[addon_id] = IF decl.repo THEN "repo" ELSE "plain"]

\* -------------------------------------- Generator._generate_addons_file
\* addons_root.find("addon[@id='{}']".format(id)): index of the first entry
\* whose id attribute is the text of id, 0 for no match.  An entry without
\* an id attribute matches nothing, and neither does the text 'None'.
Find(addons_root, id) ==
    LET hits == {i \in 1..Len(addons_root) : id # None /\ addons_root[i].id = id}
    IN IF hits = {} THEN 0 ELSE CHOOSE i \in hits : \A j \in hits : i <= j

\* Faulty variant: every existing entry counts as outdated.
VersionDiffers_Always(entry_version, version) == TRUE

\* addon_entry.get('version') != version
VersionDiffers(entry_version, version) == entry_version # version

\* Faulty variant: the new declaration is appended and the old entry stays.
ReplaceEntry_Append(addons_root, index, addon_root) == Append(addons_root, addon_root)

\* addons_root.remove(addon_entry); addons_root.insert(index, addon_root)
ReplaceEntry(addons_root, index, addon_root) ==
    InsertAt(RemoveAt(addons_root, index), index, addon_root)

\* The body of "for addon_path in addon_folders", lines 331-359.
MergeAddon(acc, f, decl) ==
    IF ~decl.ok
    THEN acc                                  \* parse raises, caught at 354
    ELSE
      LET id == decl.id
          version == decl.version
          addon_root == [id |-> id, version |-> version]
          index == Find(acc.addons_root, id)
          differs == index # 0 /\ VersionDiffers(acc.addons_root[index].version, version)
          updated == differs \/ index = 0
          merged ==
            [acc EXCEPT
               !.addons_root =
                  IF differs THEN ReplaceEntry(@, index, addon_root)
                  ELSE IF index = 0 THEN Append(@, addon_root)
                  ELSE @,
               !.changed = @ \/ updated,
               !.updated = IF updated THEN @ \cup {f} ELSE @]
          zipped == CreateZip(merged, id, version)
      IN IF ~updated THEN merged
         ELSE IF zipped.raised THEN [zipped EXCEPT !.raised = FALSE]  \* caught at 354
         ELSE CopyMetaFiles(zipped, id, decl)

RECURSIVE MergeAll(_, _, _)
\* The whole for loop over addon_folders, in the order of the listing.
MergeAll(acc, src, addon_folders) ==
    IF addon_folders = <<>> THEN acc
    ELSE MergeAll(MergeAddon(acc, Head(addon_folders), src[Head(addon_folders)]),
                  src, Tail(addon_folders))

\* sorted(addons_root, key=id) compares ids with <; comparing None raises
\* TypeError as soon as there are two elements to compare.
SortRaises(addons_root) ==
    Len(addons_root) >= 2 /\ \E i \in 1..Len(addons_root) : addons_root[i].id = None

RECURSIVE InsertSorted(_, _)
\* Insert e behind every element that is not greater (stable).
InsertSorted(sorted, e) ==
    IF sorted = <<>> THEN <<e>>
    ELSE IF IdLess(e.id, Head(sorted).id) THEN <<e>> \o sorted
    ELSE <<Head(sorted)>> \o InsertSorted(Tail(sorted), e)

RECURSIVE SortedFrom(_, _)
SortedFrom(done, rest) ==
    IF rest = <<>> THEN done ELSE SortedFrom(InsertSorted(done, Head(rest)), Tail(rest))

\* Faulty variant: the manifest is written in the order of the merge.
SortById_Unsorted(addons_root) == addons_root

\* addons_root[:] = sorted(addons_root, key=lambda addon: addon.get('id'))
SortById(addons_root) ==
    IF Len(addons_root) < 2 THEN addons_root ELSE SortedFrom(<<>>, addons_root)


\* ---------------------------------------------- Generator._cleanup_old_zips
RECURSIVE SortByMtime(_)
\* sorted(zips, key=os.path.getmtime): oldest first.
SortByMtime(dir) ==
    IF dir = {} THEN <<>>
    ELSE LET first == CHOOSE z \in dir : \A y \in dir : z.mtime <= y.mtime
         IN <<first>> \o SortByMtime(dir \ {first})

\* Faulty variant: zips[1:], everything but the oldest.
OldZips_KeepOldest(sorted) == {sorted[i] : i \in 2..Len(sorted)}

\* zips[:-1]: everything but the newest.
OldZips(sorted) == {sorted[i] : i \in 1..(Len(sorted) - 1)}

\* ------------------------------------------ Generator._copy_repo_zip_to_root
\* sorted(zips, key=os.path.getmtime)[-1]
Newest(dir) == LET sorted == SortByMtime(dir) IN sorted[Len(sorted)]

\* Lines 418-444: one candidate per listed add-on folder of zips/ whose
\* copied addon.xml has the xbmc.addon.repository extension and that holds
\* at least one zip.
RECURSIVE Candidates(_, _, _)
Candidates(listing, zipdirs, metas) ==
    IF listing = <<>> THEN <<>>
    ELSE LET addon_id == Head(listing)
             rest == Candidates(Tail(listing), zipdirs, metas)
         IN IF metas[addon_id] = "repo" /\ zipdirs[addon_id] # {}
            THEN <<[id |-> addon_id,
                    zip |-> ZipName(addon_id, Newest(zipdirs[addon_id]).version)]>> \o rest
            ELSE rest

\* Faulty variant: candidates[0], no preference for the home repository.
Chosen_First(candidates, home) == candidates[1]

\* Lines 451-452: (preferred or candidates)[0]
Chosen(candidates, home) ==
    LET preferred == SelectSeq(candidates, LAMBDA c : c.id = home)
    IN IF preferred # <<>> THEN preferred[1] ELSE candidates[1]

\* Faulty variant: the old zips are left in the top-level directory.
RootAfterCopy_KeepOld(root, failed, zip_name) == root \cup {zip_name}

\* Lines 456-466: the root after removing the old zips (those in failed
\* could not be removed) and copying the chosen zip there.
RootAfterCopy(root, failed, zip_name) == (root \cap failed) \cup {zip_name}

\* ---------------------------------------------------- Generator.__init__
\* Faulty variant: the md5 step runs whatever _generate_addons_file returned.
AfterGenerate_Always(result) == "md5"

\* Line 154: the md5 step runs only if _generate_addons_file returned truthy.
AfterGenerate(result) == IF result = True THEN "md5" ELSE "cleanup"

\* Lines 361-374: what _generate_addons_file returns.
GenerateReturns(is_changed, write_ok) == IF is_changed /\ write_ok THEN True ELSE None

\* Lines 503-514: what _generate_md5_file returns.  _save_file catches its
\* own exception, so only a failed read of addons.xml reaches the except.
Md5Returns(read_ok, save_ok) == IF read_ok THEN True ELSE None

Idle == pc \in {"idle", "done", "crashed"}

\* The record of a run that has not yet done anything: what the merge loop
\* built and updated, whether it marked a change (dirty) and wrote the
\* manifest, which I/O operations failed, the methods called so far (steps),
\* the candidates of the promotion, the files as they were when the run
\* started, whether the run repeats the previous one on unedited sources
\* (again) and whether that one wrote what it had marked (prev_persisted),
\* and the zip built last for each id.
NewHist ==
    [built |-> {}, updated |-> {}, dirty |-> FALSE, wrote |-> FALSE,
     write_failed |-> FALSE, save_failed |-> FALSE, remove_failed |-> FALSE,
     root_remove_failed |-> FALSE,
     steps |-> <<>>, candidates |-> <<>>,
     start_manifest |-> manifest, start_zips |-> zips, start_root |-> root_zips,
     again |-> FALSE, prev_persisted |-> TRUE, edited |-> FALSE,
     last_built |-> [i \in Ids |-> Absent]]

\* The walk of one add-on folder: todo are the directories os.walk has
\* still to yield, each with its path, its files and its sub-directories
\* (sub is the listing every sub-directory holds); names are the archive
\* entries written so far.
NoWalk == [todo |-> <<>>, sub |-> <<>>, names |-> {}, tree |-> <<>>]

\* No index.html in the top-level directory.
NoPage == [exists |-> FALSE, content |-> <<>>]
\* _update_index_html not called yet: ran; the text it read; whether it
\* wrote the file.
NoUpdate == [ran |-> FALSE, read |-> <<>>, wrote |-> FALSE]

Init ==
    /\ sources \in [Ids -> UNION {Decls(f) : f \in Ids}]
    /\ \A f \in Ids : sources[f] \in Decls(f)
    /\ manifest = <<>>
    /\ md5_file = Absent
    /\ zips = [i \in Ids |-> {}]
    /\ meta = [i \in Ids |-> "none"]
    /\ root_zips = {StaleZip}
    /\ home_id \in {"b", "home"}
    /\ pc = "idle"
    /\ runs = 0
    /\ changed = None
    /\ md5_result = None
    /\ latest_repo_zip_name = Absent
    /\ faulted = FALSE
    /\ hist = NewHist
    /\ walk = NoWalk
    /\ index_html = NoPage
    /\ index_hist = NoUpdate

\* The maintainer edits the addon.xml of one folder between two runs.
EditAddon(f, decl) ==
    /\ UNCHANGED ixvars
    /\ Idle
    /\ runs < MaxRuns
    /\ decl # sources[f]
    /\ decl.repo = sources[f].repo          \* an add-on keeps its kind
    /\ sources' = [sources EXCEPT ![f] = decl]
    /\ hist' = [NewHist EXCEPT !.edited = TRUE, !.last_built = hist.last_built]
    /\ UNCHANGED <<manifest, md5_file, zips, meta, root_zips, home_id, pc,
                   runs, changed, md5_result, latest_repo_zip_name, faulted, walk>>

\* Generator(release), lines 141-152: a new object, nothing recorded yet.
Generator ==
    /\ UNCHANGED ixvars
    /\ Idle
    /\ runs < MaxRuns
    /\ runs' = runs + 1
    /\ pc' = "generate"
    /\ changed' = None
    /\ md5_result' = None
    /\ latest_repo_zip_name' = Absent
    /\ hist' = [NewHist EXCEPT
                  !.again = (pc \in {"done", "crashed"} /\ ~hist.edited),
                  !.prev_persisted = (hist.dirty => hist.wrote),
                  !.last_built = hist.last_built]
    /\ UNCHANGED <<fsvars, faulted, walk>>

\* _generate_addons_file, lines 314-374, called at line 154.
GenerateAddonsFile(order, write_ok) ==
    /\ UNCHANGED ixvars
    /\ pc = "generate"
    /\ ~write_ok => ~faulted
    /\ LET acc0 == [addons_root |-> manifest, changed |-> FALSE, zips |-> zips,
                    meta |-> meta, built |-> {}, updated |-> {},
                    last_built |-> hist.last_built, raised |-> FALSE]
           acc == MergeAll(acc0, sources, order)
           crash == acc.changed /\ SortRaises(acc.addons_root)
           result == GenerateReturns(acc.changed, write_ok)
       IN /\ zips' = acc.zips
          /\ meta' = acc.meta
          /\ manifest' = IF ~crash /\ result = True
                         THEN SortById(acc.addons_root) ELSE manifest
          /\ changed' = IF crash THEN None ELSE result
          /\ faulted' = (faulted \/ (~crash /\ acc.changed /\ ~write_ok))
          /\ pc' = IF crash THEN "crashed" ELSE AfterGenerate(result)
          /\ hist' = [hist EXCEPT
                        !.built = acc.built,
                        !.updated = acc.updated,
                        !.dirty = acc.changed,
                        !.last_built = acc.last_built,
                        !.wrote = ~crash /\ result = True,
                        !.write_failed = ~crash /\ acc.changed /\ ~write_ok,
                        !.steps = Append(@, "generate")]
    /\ UNCHANGED <<sources, md5_file, root_zips, home_id, runs, md5_result,
                   latest_repo_zip_name, walk>>

\* _generate_md5_file and _save_file, lines 499-528, called at line 159.
GenerateMd5File(read_ok, save_ok) ==
    /\ UNCHANGED ixvars
    /\ pc = "md5"
    /\ ~(read_ok /\ save_ok) => ~faulted /\ (read_ok \/ save_ok)
    /\ faulted' = (faulted \/ ~(read_ok /\ save_ok))
    /\ md5_file' = IF read_ok /\ save_ok THEN Md5(manifest) ELSE md5_file
    /\ md5_result' = Md5Returns(read_ok, save_ok)
    /\ pc' = "cleanup"
    /\ hist' = [hist EXCEPT !.steps = Append(@, "md5"),
                            !.save_failed = read_ok /\ ~save_ok]
    /\ UNCHANGED <<sources, manifest, zips, meta, root_zips, home_id, runs,
                   changed, latest_repo_zip_name, walk>>

\* _cleanup_old_zips, lines 376-398; os.remove fails for the zips in failed.
CleanupOldZips(failed) ==
    /\ UNCHANGED ixvars
    /\ pc = "cleanup"
    /\ failed \subseteq UNION {OldZips(SortByMtime(zips[i])) : i \in Ids}
    /\ failed # {} => ~faulted /\ Cardinality(failed) = 1
    /\ faulted' = (faulted \/ failed # {})
    /\ zips' = [i \in Ids |-> zips[i] \ (OldZips(SortByMtime(zips[i])) \ failed)]
    /\ pc' = "promote"
    /\ hist' = [hist EXCEPT !.steps = Append(@, "cleanup"),
                            !.remove_failed = failed # {}]
    /\ UNCHANGED <<sources, manifest, md5_file, meta, root_zips, home_id,
                   runs, changed, md5_result, latest_repo_zip_name, walk>>

\* _copy_repo_zip_to_root, lines 400-470; listing is os.listdir(zips_path),
\* os.remove fails for the root zips in failed.
CopyRepoZipToRoot(listing, failed) ==
    /\ UNCHANGED ixvars
    /\ pc = "promote"
    /\ failed \subseteq root_zips
    /\ failed # {} => ~faulted /\ Cardinality(failed) = 1
    /\ LET candidates == Candidates(listing, zips, meta)
       IN /\ IF candidates = <<>>
             THEN /\ failed = {}
                  /\ UNCHANGED <<root_zips, latest_repo_zip_name, faulted>>
             ELSE /\ root_zips' = RootAfterCopy(root_zips, failed, Chosen(candidates, home_id).zip)
                  /\ latest_repo_zip_name' = Chosen(candidates, home_id).zip
                  /\ faulted' = (faulted \/ failed # {})
          /\ hist' = [hist EXCEPT !.steps = Append(@, "promote"),
                                  !.root_remove_failed = failed # {},
                                  !.candidates = candidates]
    /\ pc' = "done"
    /\ UNCHANGED <<sources, manifest, md5_file, zips, meta, home_id, runs,
                   changed, md5_result, walk>>

Next ==
    \/ \E f \in Ids : \E decl \in Decls(f) : EditAddon(f, decl)
    \/ Generator
    \/ \E order \in Perms(Ids) : \E write_ok \in BOOLEAN : GenerateAddonsFile(order, write_ok)
    \/ \E read_ok \in BOOLEAN : \E save_ok \in BOOLEAN : GenerateMd5File(read_ok, save_ok)
    \/ \E failed \in SUBSET UNION {zips[i] : i \in Ids} : CleanupOldZips(failed)
    \/ \E listing \in Perms(Ids) : \E failed \in SUBSET root_zips : CopyRepoZipToRoot(listing, failed)

Spec == Init /\ [][Next]_vars


\* ------------------------------------------------------------------ SpecZip
\* _create_zip on one add-on folder: the folder holds the listing top and
\* the directories dirs, every directory holds the listing sub.
InitZip ==
    /\ sources = [f \in Ids |-> [ok |-> FALSE, id |-> None, version |-> None, repo |-> FALSE]]
    /\ manifest = <<>>
    /\ md5_file = Absent
    /\ zips = [i \in Ids |-> {}]
    /\ meta = [i \in Ids |-> "none"]
    /\ root_zips = {}
    /\ home_id = "home"
    /\ pc = "zip"
    /\ runs = 0
    /\ changed = None
    /\ md5_result = None
    /\ latest_repo_zip_name = Absent
    /\ faulted = FALSE
    /\ hist = NewHist
    /\ index_html = NoPage
    /\ index_hist = NoUpdate
    /\ \E top \in Listings(FileNames) : \E dirs \in SUBSET DirNames :
         \E sub \in {l \in Listings(FileNames) : Len(l) <= 1} :
            walk = [todo |-> <<[path |-> <<>>, files |-> top, dirs |-> dirs]>>,
                    sub |-> sub, names |-> {},
                    tree |-> <<top, dirs, sub>>]

\* One iteration of "for root, dirs, files in os.walk(addon_folder)",
\* lines 251-271: prune dirs and files, write the remaining files, and let
\* os.walk descend into the remaining directories.
ZipWalk ==
    /\ UNCHANGED ixvars
    /\ pc = "zip"
    /\ walk.todo # <<>>
    /\ LET node == Head(walk.todo)
           dirs == PruneDirs(node.dirs)
           files == PruneFiles(node.files, 1)
           below == {[path |-> Append(node.path, d), files |-> walk.sub, dirs |-> {}] : d \in dirs}
       IN \E order \in Perms(below) :
            walk' = [walk EXCEPT
                       !.todo = order \o Tail(@),
                       !.names = @ \cup Entries(node.path, files)]
    /\ UNCHANGED <<fsvars, pc, runs, changed, md5_result, latest_repo_zip_name,
                   faulted, hist>>

NextZip == ZipWalk

SpecZip == InitZip /\ [][NextZip]_vars


\* ---------------------------------------------------------------- SpecIndex
\* The text of index.html is a sequence of segments: a stretch of text
\* without an anchor, or an anchor element.  An anchor is bare when it is
\* written exactly as <a href="...">text</a> with text free of "<"; any
\* other spelling (a further attribute, single quotes, a child element) is
\* not bare.
ZipNames == {ZipName(i, v) : i \in Ids, v \in Versions}
\* The zips the page links to or the run promotes.
LinkNames == {ZipName("b", v) : v \in Versions}
\* An href that does not end in .zip.
OtherPage == <<"page.html">>
Hrefs == LinkNames \cup {OtherPage}
\* Visible text of an anchor: a zip name or a caption.
Texts == {ZipName("b", "1"), <<"download">>}
PlainText == [tag |-> "text"]
Segments == {PlainText} \cup [tag : {"a"}, bare : BOOLEAN, href : Hrefs, text : Texts]
Pages == UNION {[1..n -> Segments] : n \in 0..MaxSegs}

\* href ends in ".zip".
EndsWithZip(href) == href \in ZipNames

\* The pattern r'<a href="[^"]*\.zip">[^<]*</a>' matches the segment.
Matches(seg) == seg.tag = "a" /\ seg.bare /\ EndsWithZip(seg.href)

\* '<a href="{0}">{0}</a>'.format(zip_name)
NewLink(zip_name) == [tag |-> "a", bare |-> TRUE, href |-> zip_name, text |-> zip_name]

\* re.sub(pattern, new_link, content): no count is given, so every match is
\* replaced.
ReSub(content, zip_name) ==
    [k \in DOMAIN content |->
        IF Matches(content[k]) THEN NewLink(zip_name) ELSE content[k]]

\* The end of __init__ after _copy_repo_zip_to_root: the promotion either
\* found no candidate (name unset) or left its zip in the top-level
\* directory, which may hold an index.html.
InitIndex ==
    /\ sources = [f \in Ids |-> [ok |-> FALSE, id |-> None, version |-> None, repo |-> FALSE]]
    /\ manifest = <<>>
    /\ md5_file = Absent
    /\ zips = [i \in Ids |-> {}]
    /\ meta = [i \in Ids |-> "none"]
    /\ home_id = "home"
    /\ pc = "index"
    /\ runs = 1
    /\ changed = None
    /\ md5_result = None
    /\ latest_repo_zip_name \in {Absent} \cup LinkNames
    /\ root_zips = IF latest_repo_zip_name = Absent THEN {} ELSE {latest_repo_zip_name}
    /\ faulted = FALSE
    /\ hist = NewHist
    /\ walk = NoWalk
    /\ index_html \in {NoPage} \cup [exists : {TRUE}, content : Pages]
    /\ index_hist = NoUpdate

\* _update_index_html, lines 472-497.
UpdateIndexHtml ==
    /\ pc = "index"
    /\ IF latest_repo_zip_name = Absent \/ ~index_html.exists
       THEN /\ index_hist' = [NoUpdate EXCEPT !.ran = TRUE]
            /\ UNCHANGED index_html
       ELSE LET content == index_html.content
                updated == ReSub(content, latest_repo_zip_name)
            IN /\ index_html' = IF updated # content
                                THEN [index_html EXCEPT !.content = updated]
                                ELSE index_html
               /\ index_hist' = [ran |-> TRUE, read |-> content,
                                 wrote |-> (updated # content)]
    /\ pc' = "done"
    /\ UNCHANGED <<fsvars, runs, changed, md5_result, latest_repo_zip_name,
                   faulted, hist, walk>>

NextIndex == UpdateIndexHtml

SpecIndex == InitIndex /\ [][NextIndex]_vars


\* ------------------------------------------------------------------- claims
IgnoreSet == {IGNORE[n] : n \in 1..Len(IGNORE)}
Ignored(entry) ==
    \/ \E i \in IgnoreSet : StartsWith(entry[2], i)
    \/ \E k \in 1..Len(entry[1]) : entry[1][k] \in IgnoreSet

\* C3: no archive entry written by _create_zip is a file whose name starts
\* with an entry of IGNORE or a file below a directory named exactly like an
\* entry of IGNORE, whatever the folder holds.
C3_NoIgnoredEntry == \A entry \in walk.names : ~Ignored(entry)


\* The current run has left the merge loop of _generate_addons_file.
Merged == "generate" \in Range(hist.steps)
\* _generate_addons_file has returned to __init__.
Generated == Merged /\ pc # "crashed"
\* _cleanup_old_zips has returned.
Cleaned == "cleanup" \in Range(hist.steps)
\* _copy_repo_zip_to_root has returned.
Promoted == "promote" \in Range(hist.steps)

WellFormed(decl) == decl.ok /\ decl.id # None /\ decl.version # None
AllWellFormed == \A f \in Ids : WellFormed(sources[f])

\* Every add-on's version equals the version of its entry in addons.xml.
VersionsMatch ==
    \A f \in Ids :
        LET index == Find(manifest, sources[f].id)
        IN index # 0 /\ manifest[index].version = sources[f].version

\* The second of two runs in succession does nothing to addons.xml, its md5
\* or the zips.
NoOpRun ==
    /\ VersionsMatch
    /\ ~hist.dirty
    /\ ~hist.wrote
    /\ changed = None
    /\ "md5" \notin Range(hist.steps)
    /\ hist.built = {}

Bumped(f) ==
    /\ WellFormed(sources[f])
    /\ LET index == Find(hist.start_manifest, f)
       IN index # 0 /\ hist.start_manifest[index].version # sources[f].version

BuiltFor(f) == {name \in hist.built : name[1] = f}
EntriesFor(f) == {i \in 1..Len(manifest) : manifest[i].id = f}

\* addons.xml lists its add-ons in strictly ascending order of id.
SortedById ==
    \A i, j \in 1..Len(manifest) :
        i < j => /\ manifest[i].id # None
                 /\ manifest[j].id # None
                 /\ IdLess(manifest[i].id, manifest[j].id)

\* addons.xml holds exactly one entry for f, with the declared version.
EntryCarriesVersion(f) ==
    /\ Cardinality(EntriesFor(f)) = 1
    /\ \A i \in EntriesFor(f) : manifest[i].version = sources[f].version

OnlyLastBuilt(id) ==
    /\ Cardinality(zips[id]) <= 1
    /\ \A z \in zips[id] : ZipName(id, z.version) = hist.last_built[id]

CandidateIds == {hist.candidates[k].id : k \in 1..Len(hist.candidates)}
\* name is the zip with the latest mtime in zips/<id>/.
IsNewestOf(name, id) ==
    \E z \in zips[id] :
        /\ name = ZipName(id, z.version)
        /\ \A y \in zips[id] : y.mtime <= z.mtime

\* C5: when a candidate has the id of the top-level directory,
\* _copy_repo_zip_to_root promotes the newest zip of that candidate, in
\* whatever order the candidates were listed; when none has, it promotes the
\* newest zip of the first candidate found.
C5_HomePreferred ==
    (Promoted /\ hist.candidates # <<>>) =>
        /\ latest_repo_zip_name \in root_zips
        /\ IF home_id \in CandidateIds
           THEN IsNewestOf(latest_repo_zip_name, home_id)
           ELSE IsNewestOf(latest_repo_zip_name, hist.candidates[1].id)

\* Two candidates, the one listed first is not the home repository, and the
\* home repository's zip is the one promoted.
C5_Witness ==
    /\ Promoted /\ Len(hist.candidates) = 2
    /\ hist.candidates[1].id # home_id
    /\ hist.candidates[2].id = home_id
    /\ latest_repo_zip_name = hist.candidates[2].zip
    /\ latest_repo_zip_name \in root_zips

\* A folder whose entry was missing or had another version at the start.
NeedsUpdate(f) ==
    LET index == Find(hist.start_manifest, sources[f].id)
    IN index = 0 \/ hist.start_manifest[index].version # sources[f].version

\* C6: an add-on whose addon.xml fails to parse or lacks id or version is
\* skipped (no manifest entry added or replaced for it, no zip built for
\* it), every other add-on is still processed, and no error escapes
\* _generate_addons_file.
C6_MalformedSkipped ==
    /\ pc # "crashed"
    /\ Merged =>
         \A f \in Ids :
            IF WellFormed(sources[f])
            THEN NeedsUpdate(f) => f \in hist.updated
            ELSE f \notin hist.updated /\ BuiltFor(f) = {}

\* C7: in one run the md5 step is called only after _generate_addons_file
\* changed and wrote addons.xml; when the write fails the function returns
\* a falsy value, the md5 step is skipped, and the cleanup and then the
\* promotion are still called.
C7_StepOrder ==
    /\ "md5" \in Range(hist.steps) =>
           /\ hist.wrote /\ hist.dirty
           /\ hist.steps[1] = "generate" /\ hist.steps[2] = "md5"
    /\ hist.write_failed =>
           /\ changed # True
           /\ \/ pc = "cleanup" /\ hist.steps = <<"generate">>
              \/ pc = "promote" /\ hist.steps = <<"generate", "cleanup">>
              \/ pc = "done" /\ hist.steps = <<"generate", "cleanup", "promote">>
    /\ Promoted =>
           \E k \in 1..Len(hist.steps) - 1 :
               /\ k + 1 = Len(hist.steps)
               /\ hist.steps[k] = "cleanup" /\ hist.steps[k + 1] = "promote"

\* A run whose manifest write failed and that went on to clean up and promote.
C7_Witness ==
    /\ pc = "done" /\ hist.write_failed /\ hist.dirty
    /\ hist.steps = <<"generate", "cleanup", "promote">>

\* C8: _generate_md5_file returns a falsy value when writing the md5 file
\* fails, and a truthy one only when the md5 file holds the digest of
\* addons.xml.
C8_Md5ResultHonest ==
    "md5" \in Range(hist.steps) =>
        /\ hist.save_failed => md5_result # True
        /\ md5_result = True => md5_file = Md5(manifest)

\* C9: every addons.xml written holds at most one entry per id and lists
\* its entries in ascending order of id.
C9_ManifestSortedUnique ==
    /\ \A i, j \in 1..Len(manifest) : manifest[i].id = manifest[j].id => i = j
    /\ SortedById

\* A run that listed b before a, replaced the entry of b and inserted the
\* one of a, and wrote both.
C9_Witness ==
    /\ hist.wrote /\ Len(manifest) = 2
    /\ Len(hist.start_manifest) = 1
    /\ hist.start_manifest[1].id = "b"
    /\ hist.start_manifest[1].version # manifest[2].version
    /\ hist.updated = {"a", "b"}

\* The effect of _copy_repo_zip_to_root on the top-level directory: one
\* zip, the chosen candidate's, recorded for the index page; nothing
\* touched without a candidate.
PromotionEffect ==
    IF hist.candidates # <<>>
    THEN /\ root_zips = {latest_repo_zip_name}
         /\ latest_repo_zip_name = Chosen(hist.candidates, home_id).zip
    ELSE /\ root_zips = hist.start_root
         /\ latest_repo_zip_name = Absent

C10_WitnessNoCandidate ==
    /\ Promoted /\ hist.candidates = <<>>
    /\ root_zips = {StaleZip} /\ latest_repo_zip_name = Absent

\* ---- C11
\* _update_index_html got past its guard: a zip was promoted and index.html
\* exists.
IndexUpdated ==
    index_hist.ran /\ latest_repo_zip_name # Absent /\ index_html.exists

\* An anchor element whose href ends in .zip, read as the code's pattern
\* reads it: anchors spelled otherwise are left out of the claim.
IsZipAnchor(seg) == Matches(seg)

\* Position of the first such anchor, 0 if the page has none.
FirstZipAnchor(content) ==
    IF \E k \in DOMAIN content : IsZipAnchor(content[k])
    THEN CHOOSE k \in DOMAIN content :
            /\ IsZipAnchor(content[k])
            /\ \A j \in 1..(k - 1) : ~IsZipAnchor(content[j])
    ELSE 0

\* The page with only its first zip anchor replaced.
FirstReplaced(content, zip_name) ==
    IF FirstZipAnchor(content) = 0 THEN content
    ELSE [content EXCEPT ![FirstZipAnchor(content)] = NewLink(zip_name)]

\* C11: when a zip was promoted and index.html exists, after
\* _update_index_html the page is the page read with its first anchor to a
\* .zip replaced by <a href=name>name</a> and every other part, later zip
\* anchors included, as it was; the file was written exactly when the
\* resulting text differs from the text read.
C11_FirstLinkOnly ==
    IndexUpdated =>
        /\ index_html.content = FirstReplaced(index_hist.read, latest_repo_zip_name)
        /\ index_hist.wrote <=> (index_html.content # index_hist.read)

\* What the code does instead: every zip anchor is rewritten, and the file
\* is written exactly when that changes the text.
C11_EveryLinkRewritten ==
    IndexUpdated
    => /\ \A k \in DOMAIN index_hist.read :
            index_html.content[k] =
                IF IsZipAnchor(index_hist.read[k])
                THEN NewLink(latest_repo_zip_name) ELSE index_hist.read[k]
       /\ index_hist.wrote <=> (index_html.content # index_hist.read)

\* A page with two zip anchors, the second other than the promoted zip,
\* has been updated and both now name the promoted zip.
C11_TwoLinksRewritten ==
    /\ IndexUpdated
    /\ Len(index_hist.read) = 2
    /\ \A k \in 1..2 : Matches(index_hist.read[k])
    /\ index_hist.read[2].href # latest_repo_zip_name
    /\ \A k \in 1..2 : index_html.content[k] = NewLink(latest_repo_zip_name)

====
